---------------------------- MODULE Spec2Model ----------------------------
(***************************************************************************)
(* Model of the message sanitizer (fix_bedrock_messages and                *)
(* LiteLLMBedrockFixer.validate_messages) and of the model fallback        *)
(* dispatcher (safe_claude_call and LiteLLMBedrockFixer.safe_completion).   *)
(*                                                                         *)
(* A Python dict message is a function from the keys it holds to their     *)
(* values, so that `"role" in msg` is "role" \in DOMAIN msg.  An entry of   *)
(* the list that is not a dict is a bare string s, written [str |-> s].    *)
(* A text (an error text, a response text) is a sequence of words.         *)
(***************************************************************************)
EXTENDS Integers, Sequences, FiniteSets, TLC

VARIABLES
    messages,       \* the caller's list object, as it is now
    orig,           \* the caller's list as it was before the first call
    arg,            \* the sequence handed to the latest sanitizer call
    returned,       \* the sequence the latest sanitizer call returned
    aliased,        \* whether `returned` is the caller's list object itself
    outcome,        \* "none", "returned" or "raised" (latest sanitizer call)
    fn,             \* the function the caller invoked
    applied,        \* how many times the sanitizer has been applied
    pc,             \* "idle", "loop", "done" or "raised" (dispatcher)
    model,          \* the dispatcher's model argument
    models_to_try,  \* the candidate list
    idx,            \* position of the for loop in models_to_try
    oracle,         \* the candidate positions whose completion call succeeds
    calls,          \* the completion calls performed so far, in order
    error_msg,      \* the text of the latest caught exception
    result,         \* the tuple the dispatcher returned
    model_index,    \* argument of the innermost recursive safe_claude_call
    depth,          \* frames of the recursive safe_claude_call on the stack
    earlier,        \* dispatcher calls made on the caller's list before this one
    error_text,     \* the text handed to parse_error
    label,          \* what parse_error returned
    parsed,         \* whether parse_error has returned
    cpc,            \* position of run_full_check
    creds_ok,       \* what check_aws_credentials returned
    listed,         \* what check_region_models returned, region by region
    available_regions,   \* the regions run_full_check collected
    probed,         \* the regions handed to check_model_access, with counts
    recommended_region,  \* the region run_full_check recommends
    config_region,  \* the region written into litellm_config.py
    check_result,   \* what run_full_check returned
    environ,        \* os.environ, as it is now
    environ_before, \* os.environ as it was before setup_aws_environment
    setup_result,   \* what setup_aws_environment returned
    setup_pc        \* "idle", "ready" or "returned" (setup_aws_environment)

vars == <<messages, orig, arg, returned, aliased, outcome, fn, applied,
          pc, model, models_to_try, idx, oracle, calls, error_msg, result,
          model_index, depth, earlier, error_text, label, parsed,
          cpc, creds_ok, listed, available_regions, probed,
          recommended_region, config_region, check_result,
          environ, environ_before, setup_result, setup_pc>>

sanVars == <<messages, orig, arg, returned, aliased, outcome, applied>>
dispVars == <<pc, model, models_to_try, idx, oracle, calls, error_msg, result>>

\* the variables that neither a sanitizer nor safe_completion and
\* safe_claude_call (bedrock_helpers) touch
extVars == <<model_index, depth, earlier, error_text, label, parsed>>

\* the variables of BedrockChecker.run_full_check
checkVars == <<cpc, creds_ok, listed, available_regions, probed,
               recommended_region, config_region, check_result>>

---------------------------------------------------------------------------
(* Bounds of the model *)

MaxLen == 3          \* longest caller list handed to the sanitizer alone
MaxApply == 2        \* applications of the sanitizer in a row
MaxDispatchLen == 1  \* longest caller list handed to a dispatcher
MaxErrLen == 1       \* words in an error text
MaxEarlier == 1      \* further dispatcher calls on the same caller list
MaxListed == 1       \* Claude models in one region's listing
MaxMarkers == 2      \* known substrings in a text handed to parse_error
MaxPad == 52         \* other characters in a text handed to parse_error

---------------------------------------------------------------------------
(* Messages *)

None == "<None>"

RoleValues == {"system", "user", "assistant", ""}
ContentValues == {"Hi", ""}

\* every dict over the keys role and content, each key present or not
Dicts(roles, contents) ==
    {[role |-> r, content |-> c] : r \in roles, c \in contents}
      \cup {[role |-> r] : r \in roles}
      \cup {[content |-> c] : c \in contents}
      \cup {[k \in {} |-> ""]}

BareStrings == {"hello"}
NonDicts == {[str |-> s] : s \in BareStrings}

Entries == Dicts(RoleValues, ContentValues) \cup NonDicts

SeqsUpTo(S, n) == UNION {[1..k -> S] : k \in 0..n}

isinstance_dict(msg) == "str" \notin DOMAIN msg

\* dict.get(key): the value, or None when the key is missing
Get(msg, key) == IF key \in DOMAIN msg THEN msg[key] ELSE None

\* msg[key] = val on a dict
SetKey(msg, key, val) ==
    [k \in DOMAIN msg \cup {key} |-> IF k = key THEN val ELSE msg[k]]

\* a content test that only asks for a value: `is None` in place of `not`
Falsy_OnlyNone(v) == v = None

\* Python truth value of a field: the empty string and None are false
Falsy(v) == v \in {"", None}

\* str(msg) of a bare string is the string
str(msg) == msg.str

\* `key in msg`: a key test on a dict, a substring test on a bare string
\* (the bare strings of the model are single words, none inside another)
KeyIn(key, msg) ==
    IF isinstance_dict(msg) THEN key \in DOMAIN msg ELSE msg.str = key

Raised(list) == [raised |-> TRUE, ret |-> <<>>, list |-> list]
Returned(ret, list) == [raised |-> FALSE, ret |-> ret, list |-> list]

---------------------------------------------------------------------------
(* fix_bedrock_messages, src/bedrock_helpers.py *)

\* lines 30-38: one turn of the format loop on entry i.  msg stays bound to
\* the entry found at i, also after line 32 has replaced messages[i].
FixEntry(msgs, i) ==
    LET msg == msgs[i]
        m1 == IF ~isinstance_dict(msg)
                THEN [msgs EXCEPT ![i] = [role |-> "user", content |-> str(msg)]]
                ELSE msgs
        m2 == IF ~KeyIn("role", msg)
                THEN [m1 EXCEPT ![i] = SetKey(@, "role", "user")]
                ELSE m1
    IN  IF ~KeyIn("content", msg)
          THEN [raised |-> FALSE,
                list |-> [m2 EXCEPT ![i] = SetKey(@, "content", "Please help me.")]]
        ELSE IF ~isinstance_dict(msg)
          THEN [raised |-> TRUE, list |-> m2]      \* str["content"]: TypeError
        ELSE IF Falsy(msg["content"])
          THEN [raised |-> FALSE,
                list |-> [m2 EXCEPT ![i] = SetKey(@, "content", "Please help me.")]]
        ELSE [raised |-> FALSE, list |-> m2]

RECURSIVE FixLoop(_, _)
FixLoop(msgs, i) ==
    IF i > Len(msgs) THEN [raised |-> FALSE, list |-> msgs]
    ELSE LET step == FixEntry(msgs, i)
         IN  IF step.raised THEN step ELSE FixLoop(step.list, i + 1)

\* line 23: msg.get("role") on every entry; an entry that is no dict has no
\* get and the comprehension raises AttributeError
FixScanRaises(msgs) == \E i \in DOMAIN msgs : ~isinstance_dict(msgs[i])

\* a scan that finds a non-system message in every list: nothing is appended
FixNonSystem_Unfiltered(msgs) == msgs

\* a scan for user messages in place of non-system messages
FixNonSystem_UserOnly(msgs) ==
    SelectSeq(msgs, LAMBDA msg : Get(msg, "role") = "user")

\* the filter inverted: the system messages are selected
FixNonSystem_Inverted(msgs) ==
    SelectSeq(msgs, LAMBDA msg : Get(msg, "role") = "system")

FixNonSystem(msgs) ==
    SelectSeq(msgs, LAMBDA msg : Get(msg, "role") # "system")

\* the empty input handed back as it came
FixEmptyDefault_Nothing == <<>>

\* the list returned for an empty input
FixEmptyDefault == <<[role |-> "user", content |-> "Hello"]>>

\* one user message appended per system message
FixAppend_PerMessage(msgs) ==
    msgs \o [i \in 1..Len(msgs) |->
                [role |-> "user", content |-> "Please provide assistance."]]

\* messages.insert(0, ...) in place of messages.append(...)
FixAppend_InFront(msgs) ==
    <<[role |-> "user", content |-> "Please provide assistance."]>> \o msgs

\* messages.append(...) when no entry is a non-system message
FixAppend(msgs) ==
    Append(msgs, [role |-> "user", content |-> "Please provide assistance."])

\* the repair made on a copy: the caller's list is left as it came
fix_bedrock_messages_Copy(msgs) ==
    IF msgs = <<>>
      THEN Returned(FixEmptyDefault, msgs)
    ELSE IF FixScanRaises(msgs)
      THEN Raised(msgs)
    ELSE LET appended ==
                 IF FixNonSystem(msgs) = <<>> THEN FixAppend(msgs) ELSE msgs
             loop == FixLoop(appended, 1)
         IN  IF loop.raised THEN Raised(msgs)
             ELSE Returned(loop.list, msgs)

fix_bedrock_messages(msgs) ==
    IF msgs = <<>>
      THEN Returned(FixEmptyDefault, msgs)
    ELSE IF FixScanRaises(msgs)
      THEN Raised(msgs)
    ELSE LET appended ==
                 IF FixNonSystem(msgs) = <<>> THEN FixAppend(msgs) ELSE msgs
             loop == FixLoop(appended, 1)
         IN  IF loop.raised THEN Raised(loop.list)
             ELSE Returned(loop.list, loop.list)

---------------------------------------------------------------------------
(* LiteLLMBedrockFixer.validate_messages, src/fix_litellm_bedrock_error.py *)

\* a present but empty content left as it is
ValidateEntry_KeepEmpty(msgs, i) ==
    LET msg == msgs[i]
        m2 == IF ~KeyIn("role", msg)
                THEN [msgs EXCEPT ![i] = SetKey(@, "role", "user")]
                ELSE msgs
    IN  IF ~KeyIn("content", msg)
          THEN [raised |-> FALSE,
                list |-> [m2 EXCEPT ![i] = SetKey(@, "content", "Please help me.")]]
          ELSE [raised |-> FALSE, list |-> m2]

ValidateEntry(msgs, i) ==
    LET msg == msgs[i]
        m1 == IF ~isinstance_dict(msg)
                THEN [msgs EXCEPT ![i] = [role |-> "user", content |-> str(msg)]]
                ELSE msgs
        m2 == IF ~KeyIn("role", msg)
                THEN [m1 EXCEPT ![i] = SetKey(@, "role", "user")]
                ELSE m1
    IN  IF ~KeyIn("content", msg)
          THEN [raised |-> FALSE,
                list |-> [m2 EXCEPT ![i] = SetKey(@, "content", "Please help me.")]]
        ELSE IF ~isinstance_dict(msg)
          THEN [raised |-> TRUE, list |-> m2]
        ELSE IF Falsy(msg["content"])
          THEN [raised |-> FALSE,
                list |-> [m2 EXCEPT ![i] = SetKey(@, "content", "Please help me.")]]
        ELSE [raised |-> FALSE, list |-> m2]

RECURSIVE ValidateLoop(_, _)
ValidateLoop(msgs, i) ==
    IF i > Len(msgs) THEN [raised |-> FALSE, list |-> msgs]
    ELSE LET step == ValidateEntry(msgs, i)
         IN  IF step.raised THEN step ELSE ValidateLoop(step.list, i + 1)

ValidateScanRaises(msgs) == \E i \in DOMAIN msgs : ~isinstance_dict(msgs[i])

ValidateNonSystem(msgs) ==
    SelectSeq(msgs, LAMBDA msg : Get(msg, "role") # "system")

\* the list returned for an empty input
ValidateEmptyDefault == <<[role |-> "user", content |-> "Hello"]>>

\* messages.append(...) when no entry is a non-system message
ValidateAppend(msgs) ==
    Append(msgs, [role |-> "user", content |-> "Please provide assistance."])

validate_messages(msgs) ==
    IF msgs = <<>>
      THEN Returned(ValidateEmptyDefault, msgs)
    ELSE IF ValidateScanRaises(msgs)
      THEN Raised(msgs)
    ELSE LET appended ==
                 IF ValidateNonSystem(msgs) = <<>> THEN ValidateAppend(msgs) ELSE msgs
             loop == ValidateLoop(appended, 1)
         IN  IF loop.raised THEN Raised(loop.list)
             ELSE Returned(loop.list, loop.list)

Sanitizers == {"fix_bedrock_messages", "validate_messages"}

Sanitize(f, msgs) ==
    IF f = "fix_bedrock_messages" THEN fix_bedrock_messages(msgs)
    ELSE validate_messages(msgs)

---------------------------------------------------------------------------
(* The sanitizer called on its own, and again on what it returned *)

DispatchIdle ==
    /\ pc = "idle"
    /\ model = None
    /\ models_to_try = <<>>
    /\ idx = 0
    /\ oracle = {}
    /\ calls = <<>>
    /\ error_msg = <<>>
    /\ result = <<>>

ExtIdle ==
    /\ model_index = 0
    /\ depth = 0
    /\ earlier = 0
    /\ error_text = <<>>
    /\ label = <<>>
    /\ parsed = FALSE

\* the variables of LiteLLMBedrockFixer.setup_aws_environment
envVars == <<environ, environ_before, setup_result, setup_pc>>

EnvIdle ==
    /\ environ = << >>
    /\ environ_before = << >>
    /\ setup_result = << >>
    /\ setup_pc = "idle"

CheckIdle ==
    /\ cpc = "idle"
    /\ creds_ok = FALSE
    /\ listed = <<>>
    /\ available_regions = <<>>
    /\ probed = <<>>
    /\ recommended_region = None
    /\ config_region = None
    /\ check_result = "none"

SanitizerIdle ==
    /\ orig = messages
    /\ arg = <<>>
    /\ returned = <<>>
    /\ aliased = FALSE
    /\ outcome = "none"
    /\ applied = 0

InitSanitizer ==
    /\ messages \in SeqsUpTo(Entries, MaxLen)
    /\ fn \in Sanitizers
    /\ SanitizerIdle
    /\ DispatchIdle
    /\ ExtIdle
    /\ CheckIdle
    /\ EnvIdle

\* result = fn(messages): the first call, on the caller's list
SanitizeFirst ==
    /\ fn \in Sanitizers
    /\ outcome = "none"
    /\ LET r == Sanitize(fn, messages)
       IN  /\ arg' = messages
           /\ messages' = r.list
           /\ returned' = r.ret
           /\ outcome' = IF r.raised THEN "raised" ELSE "returned"
           /\ aliased' = (~r.raised /\ messages # <<>>)
    /\ applied' = 1
    /\ UNCHANGED <<orig, fn>>
    /\ UNCHANGED dispVars
    /\ UNCHANGED extVars
    /\ UNCHANGED checkVars
    /\ UNCHANGED envVars

\* result = fn(result): the sanitizer applied to what it returned
SanitizeAgain ==
    /\ fn \in Sanitizers
    /\ outcome = "returned"
    /\ applied < MaxApply
    /\ LET r == Sanitize(fn, returned)
       IN  /\ arg' = returned
           /\ messages' = IF aliased THEN r.list ELSE messages
           /\ returned' = r.ret
           /\ outcome' = IF r.raised THEN "raised" ELSE "returned"
           /\ aliased' = (aliased /\ ~r.raised /\ returned # <<>>)
    /\ applied' = applied + 1
    /\ UNCHANGED <<orig, fn>>
    /\ UNCHANGED dispVars
    /\ UNCHANGED extVars
    /\ UNCHANGED checkVars
    /\ UNCHANGED envVars

NextSanitizer == SanitizeFirst \/ SanitizeAgain

SpecSanitizer == InitSanitizer /\ [][NextSanitizer]_vars

---------------------------------------------------------------------------
(* Texts *)

\* the substrings the error classifier and the suggestion table look for
NonSystemText == "at least one non-system message"

ErrWords ==
    {NonSystemText, "NoCredentialsError", "CredentialsNotFound",
     "AccessDeniedException", "Access denied", "ResourceNotFoundException",
     "ValidationException", "ThrottlingException", "timeout"}

\* an error text is a sequence of words; no word of ErrWords lies inside
\* another, so `sub in error_msg` is the presence of the word
ErrTexts == SeqsUpTo(ErrWords, MaxErrLen)

Contains(sub, text) == \E i \in DOMAIN text : text[i] = sub

\* response.choices[0].message.content of a successful call on model_name
Response(model_name) == <<"response of", model_name>>

---------------------------------------------------------------------------
(* LiteLLMBedrockFixer.get_error_suggestions *)

get_error_suggestions(msg) ==
    (IF Contains(NonSystemText, msg)
       THEN <<"check that the message array holds a user message",
              "add a user role message when only system messages exist">>
       ELSE <<>>)
    \o
    (IF Contains("NoCredentialsError", msg) \/ Contains("CredentialsNotFound", msg)
       THEN <<"set AWS_ACCESS_KEY_ID and AWS_SECRET_ACCESS_KEY",
              "configure the AWS CLI with aws configure",
              "add the AWS credentials to the .env file">>
       ELSE <<>>)
    \o
    (IF Contains("AccessDeniedException", msg) \/ Contains("Access denied", msg)
       THEN <<"add the bedrock:* permission in IAM",
              "request model access in Bedrock Model Access",
              "check that the right IAM user or role is used">>
       ELSE <<>>)
    \o
    (IF Contains("ResourceNotFoundException", msg)
       THEN <<"use region us-east-1 or us-west-2",
              "check the model id",
              "check that the region supports the model">>
       ELSE <<>>)
    \o
    (IF Contains("ValidationException", msg)
       THEN <<"check the request format",
              "check the parameter ranges",
              "check the message content against the policy">>
       ELSE <<>>)

---------------------------------------------------------------------------
(* LiteLLMBedrockFixer.parse_error *)

\* the characters of a word that is none of the known substrings
Chars(w) ==
    IF w = "timeout" THEN <<"t", "i", "m", "e", "o", "u", "t">> ELSE <<w>>

\* the text as a sequence of characters (used where no known substring is in it)
RECURSIVE Explode(_)
Explode(text) ==
    IF text = <<>> THEN <<>> ELSE Chars(Head(text)) \o Explode(Tail(text))

\* the limit of error_msg[:50] and len(error_msg) > 50
TruncateAt == 50

\* the last 50 characters kept in place of the first 50
Truncated_Tail(chars) ==
    SubSeq(chars, Len(chars) - TruncateAt + 1, Len(chars)) \o <<"...">>

\* error_msg[:50] + "..."
Truncated(chars) == SubSeq(chars, 1, TruncateAt) \o <<"...">>

\* the validation test made before the access test
parse_error_ValidationFirst(msg) ==
    IF Contains(NonSystemText, msg)
      THEN <<"system messages only">>
    ELSE IF Contains("NoCredentialsError", msg) \/ Contains("CredentialsNotFound", msg)
      THEN <<"no credentials">>
    ELSE IF Contains("ValidationException", msg)
      THEN <<"request validation failed">>
    ELSE IF Contains("AccessDeniedException", msg) \/ Contains("Access denied", msg)
      THEN <<"no access permission">>
    ELSE IF Contains("ResourceNotFoundException", msg)
      THEN <<"model or resource missing">>
    ELSE IF Contains("ThrottlingException", msg)
      THEN <<"API limit exceeded">>
    ELSE IF Len(Explode(msg)) > TruncateAt THEN Truncated(Explode(msg)) ELSE msg

parse_error(msg) ==
    IF Contains(NonSystemText, msg)
      THEN <<"system messages only">>
    ELSE IF Contains("NoCredentialsError", msg) \/ Contains("CredentialsNotFound", msg)
      THEN <<"no credentials">>
    ELSE IF Contains("AccessDeniedException", msg) \/ Contains("Access denied", msg)
      THEN <<"no access permission">>
    ELSE IF Contains("ResourceNotFoundException", msg)
      THEN <<"model or resource missing">>
    ELSE IF Contains("ValidationException", msg)
      THEN <<"request validation failed">>
    ELSE IF Contains("ThrottlingException", msg)
      THEN <<"API limit exceeded">>
    ELSE IF Len(Explode(msg)) > TruncateAt THEN Truncated(Explode(msg)) ELSE msg

\* the known substrings
Markers == ErrWords \ {"timeout"}

Digits == <<"0", "1", "2", "3", "4", "5", "6", "7", "8", "9">>

\* n characters, none of them part of a known substring
Pad(n) == [i \in 1..n |-> Digits[(i % 10) + 1]]

\* texts handed to parse_error: known substrings with other characters in
\* front of them or behind them
ParseInputs ==
    {Pad(n) \o ms : n \in 0..MaxPad, ms \in SeqsUpTo(Markers, MaxMarkers)}
      \cup {ms \o Pad(n) : n \in 0..MaxPad, ms \in SeqsUpTo(Markers, MaxMarkers)}

InitParse ==
    /\ messages = <<>>
    /\ fn = "parse_error"
    /\ SanitizerIdle
    /\ DispatchIdle
    /\ model_index = 0
    /\ depth = 0
    /\ earlier = 0
    /\ error_text \in ParseInputs
    /\ label = <<>>
    /\ parsed = FALSE
    /\ CheckIdle
    /\ EnvIdle

\* label = self.parse_error(error_text)
ParseError ==
    /\ fn = "parse_error"
    /\ ~parsed
    /\ label' = parse_error(error_text)
    /\ parsed' = TRUE
    /\ UNCHANGED <<sanVars, dispVars, fn, model_index, depth, earlier, error_text>>
    /\ UNCHANGED checkVars
    /\ UNCHANGED envVars

NextParse == ParseError

SpecParse == InitParse /\ [][NextParse]_vars

---------------------------------------------------------------------------
(* LiteLLMBedrockFixer.safe_completion, src/fix_litellm_bedrock_error.py *)

claude_models ==
    <<"bedrock/anthropic.claude-3-sonnet-20240229-v1:0",
      "bedrock/anthropic.claude-3-haiku-20240307-v1:0",
      "bedrock/anthropic.claude-v2:1",
      "bedrock/anthropic.claude-v2">>

InList(x, list) == \E i \in DOMAIN list : list[i] = x

\* the model arguments a caller passes: none, the empty string, the first
\* and the last recognized model, a model that is not recognized
ModelArgs == {None, "", claude_models[1], claude_models[4], "gpt-4"}

\* lines 105-117: the default model, then the candidate list
SafeCompletionCandidates(m) ==
    LET model1 == IF Falsy(m) THEN claude_models[1] ELSE m
    IN  IF InList(model1, claude_models) THEN <<model1>> ELSE claude_models

\* every failure ends the dispatch: no next candidate is tried
SafeCompletionIsLast_Always(model_name, models) == TRUE

\* the test made against models_to_try[0] in place of models_to_try[-1]
SafeCompletionIsLast_First(model_name, models) == model_name = models[1]

\* line 144: model_name != models_to_try[-1], negated
SafeCompletionIsLast(model_name, models) == model_name = models[Len(models)]

Dispatchers == {"safe_completion", "safe_claude_call"}

\* line 102, messages = self.validate_messages(messages), and the entry
\* into the for loop; `returned` is the local variable messages from then on
SafeCompletionEnter ==
    /\ fn = "safe_completion"
    /\ pc = "idle"
    /\ \E m \in ModelArgs :
         LET r == validate_messages(messages)
             cands == SafeCompletionCandidates(m)
         IN  /\ model' = m
             /\ arg' = messages
             /\ messages' = r.list
             /\ returned' = r.ret
             /\ aliased' = (~r.raised /\ messages # <<>>)
             /\ outcome' = IF r.raised THEN "raised" ELSE "returned"
             /\ applied' = applied + 1
             /\ IF r.raised
                  THEN /\ pc' = "raised"
                       /\ UNCHANGED <<models_to_try, idx, oracle>>
                  ELSE /\ pc' = "loop"
                       /\ models_to_try' = cands
                       /\ idx' = 1
                       /\ oracle' \in SUBSET (1..Len(cands))
    /\ UNCHANGED <<orig, fn, calls, error_msg, result>>
    /\ UNCHANGED extVars
    /\ UNCHANGED checkVars
    /\ UNCHANGED envVars

\* lines 122-137: the completion call on models_to_try[idx] succeeds
SafeCompletionSucceeds ==
    /\ fn = "safe_completion"
    /\ pc = "loop"
    /\ idx \in oracle
    /\ LET model_name == models_to_try[idx]
       IN  /\ calls' = Append(calls, [model |-> model_name, messages |-> returned])
           /\ result' = [success |-> TRUE,
                         text |-> Response(model_name),
                         info |-> [model |-> model_name,
                                   response_time |-> "success"]]
    /\ pc' = "done"
    /\ UNCHANGED <<models_to_try, idx, oracle, error_msg, model, fn>>
    /\ UNCHANGED sanVars
    /\ UNCHANGED extVars
    /\ UNCHANGED checkVars
    /\ UNCHANGED envVars

\* lines 139-155: the completion call on models_to_try[idx] raises
SafeCompletionFails ==
    /\ fn = "safe_completion"
    /\ pc = "loop"
    /\ idx \notin oracle
    /\ \E err \in ErrTexts :
         LET model_name == models_to_try[idx]
         IN  /\ calls' = Append(calls, [model |-> model_name, messages |-> returned])
             /\ error_msg' = err
             /\ IF ~SafeCompletionIsLast(model_name, models_to_try)
                  THEN IF idx < Len(models_to_try)
                         THEN /\ idx' = idx + 1
                              /\ UNCHANGED <<pc, result>>
                         ELSE \* line 155, the loop ran out
                              /\ pc' = "done"
                              /\ result' = [success |-> FALSE,
                                            text |-> <<"all model attempts failed">>,
                                            info |-> [error |-> <<"All models failed">>]]
                              /\ UNCHANGED idx
                  ELSE /\ pc' = "done"
                       /\ result' =
                            [success |-> FALSE,
                             text |-> err,
                             info |-> [error |-> err,
                                       tried_models |-> models_to_try,
                                       suggestions |-> get_error_suggestions(err)]]
                       /\ UNCHANGED idx
    /\ UNCHANGED <<models_to_try, oracle, model, fn>>
    /\ UNCHANGED sanVars
    /\ UNCHANGED extVars
    /\ UNCHANGED checkVars
    /\ UNCHANGED envVars

---------------------------------------------------------------------------
(* safe_claude_call, src/bedrock_helpers.py *)

claude_models_helper ==
    <<"bedrock/anthropic.claude-3-sonnet-20240229-v1:0",
      "bedrock/anthropic.claude-3-haiku-20240307-v1:0",
      "bedrock/anthropic.claude-v2:1">>

\* the candidate rule of safe_completion: [model] only for a recognized model
SafeClaudeCallCandidates_Recognized(m) ==
    IF InList(m, claude_models_helper) THEN <<m>> ELSE claude_models_helper

\* line 75: [model] if model else claude_models
SafeClaudeCallCandidates(m) ==
    IF ~Falsy(m) THEN <<m>> ELSE claude_models_helper

\* line 92: model_name != models_to_try[-1], negated
SafeClaudeCallIsLast(model_name, models) == model_name = models[Len(models)]

\* line 58, messages = fix_bedrock_messages(messages), and the loop entry
SafeClaudeCallEnter ==
    /\ fn = "safe_claude_call"
    /\ pc = "idle"
    /\ \E m \in ModelArgs :
         LET r == fix_bedrock_messages(messages)
             cands == SafeClaudeCallCandidates(m)
         IN  /\ model' = m
             /\ arg' = messages
             /\ messages' = r.list
             /\ returned' = r.ret
             /\ aliased' = (~r.raised /\ messages # <<>>)
             /\ outcome' = IF r.raised THEN "raised" ELSE "returned"
             /\ applied' = applied + 1
             /\ IF r.raised
                  THEN /\ pc' = "raised"
                       /\ UNCHANGED <<models_to_try, idx, oracle>>
                  ELSE /\ pc' = "loop"
                       /\ models_to_try' = cands
                       /\ idx' = 1
                       /\ oracle' \in SUBSET (1..Len(cands))
    /\ UNCHANGED <<orig, fn, calls, error_msg, result>>
    /\ UNCHANGED extVars
    /\ UNCHANGED checkVars
    /\ UNCHANGED envVars

\* a success that does not return: the loop goes on to the next candidate
SafeClaudeCallSucceeds_NoReturn ==
    /\ fn = "safe_claude_call"
    /\ pc = "loop"
    /\ idx \in oracle
    /\ LET model_name == models_to_try[idx]
       IN  /\ calls' = Append(calls, [model |-> model_name, messages |-> returned])
           /\ result' = [success |-> TRUE, text |-> Response(model_name)]
    /\ IF idx < Len(models_to_try)
         THEN idx' = idx + 1 /\ pc' = pc
         ELSE idx' = idx /\ pc' = "done"
    /\ UNCHANGED <<models_to_try, oracle, error_msg, model, fn>>
    /\ UNCHANGED sanVars
    /\ UNCHANGED extVars
    /\ UNCHANGED checkVars
    /\ UNCHANGED envVars

\* lines 79-86: the completion call on models_to_try[idx] succeeds
SafeClaudeCallSucceeds ==
    /\ fn = "safe_claude_call"
    /\ pc = "loop"
    /\ idx \in oracle
    /\ LET model_name == models_to_try[idx]
       IN  /\ calls' = Append(calls, [model |-> model_name, messages |-> returned])
           /\ result' = [success |-> TRUE, text |-> Response(model_name)]
    /\ pc' = "done"
    /\ UNCHANGED <<models_to_try, idx, oracle, error_msg, model, fn>>
    /\ UNCHANGED sanVars
    /\ UNCHANGED extVars
    /\ UNCHANGED checkVars
    /\ UNCHANGED envVars

\* lines 88-97: the completion call on models_to_try[idx] raises
SafeClaudeCallFails ==
    /\ fn = "safe_claude_call"
    /\ pc = "loop"
    /\ idx \notin oracle
    /\ \E err \in ErrTexts :
         LET model_name == models_to_try[idx]
         IN  /\ calls' = Append(calls, [model |-> model_name, messages |-> returned])
             /\ error_msg' = err
             /\ IF ~SafeClaudeCallIsLast(model_name, models_to_try)
                  THEN IF idx < Len(models_to_try)
                         THEN /\ idx' = idx + 1
                              /\ UNCHANGED <<pc, result>>
                         ELSE \* line 97, the loop ran out
                              /\ pc' = "done"
                              /\ result' = [success |-> FALSE,
                                            text |-> <<"unknown error">>]
                              /\ UNCHANGED idx
                  ELSE /\ pc' = "done"
                       /\ result' = [success |-> FALSE,
                                     text |-> <<"all models failed:">> \o err]
                       /\ UNCHANGED idx
    /\ UNCHANGED <<models_to_try, oracle, model, fn>>
    /\ UNCHANGED sanVars
    /\ UNCHANGED extVars
    /\ UNCHANGED checkVars
    /\ UNCHANGED envVars

---------------------------------------------------------------------------
(* safe_claude_call(messages, model_index) of the generated litellm_config, *)
(* src/aws_bedrock_checker.py lines 244-271                                 *)

RECOMMENDED_MODELS ==
    <<"bedrock/anthropic.claude-3-sonnet-20240229-v1:0",
      "bedrock/anthropic.claude-3-haiku-20240307-v1:0",
      "bedrock/anthropic.claude-v2:1">>

\* line 252: model_index >= len(RECOMMENDED_MODELS)
GenExhausted(i) == i >= Len(RECOMMENDED_MODELS)

\* the recursive call made with the same index
GenNextIndex_Same(i) == i

\* line 271: model_index + 1
GenNextIndex(i) == i + 1

\* line 257: m.get("role") on every entry raises on an entry that is no dict
GenScanRaises(msgs) == \E i \in DOMAIN msgs : ~isinstance_dict(msgs[i])

\* the check of line 258 left out: the array is sent as it came
GenPrepare_NoCheck(msgs) == msgs

\* lines 257-259: a user message is appended when no entry is non-system
GenPrepare(msgs) ==
    IF SelectSeq(msgs, LAMBDA m : Get(m, "role") # "system") = <<>>
      THEN Append(msgs, [role |-> "user", content |-> "Hello"])
      ELSE msgs

GeneratedVariant == "litellm_config.safe_claude_call"

\* line 280: result = safe_claude_call(messages), model_index = 0
GenEnter ==
    /\ fn = GeneratedVariant
    /\ pc = "idle"
    /\ pc' = "loop"
    /\ model_index' = 0
    /\ depth' = 1
    /\ oracle' \in SUBSET (1..Len(RECOMMENDED_MODELS))
    /\ UNCHANGED <<model, models_to_try, idx, calls, error_msg, result>>
    /\ UNCHANGED <<sanVars, fn, earlier, error_text, label, parsed>>
    /\ UNCHANGED checkVars
    /\ UNCHANGED envVars

\* lines 252-253: every model was tried; the exception leaves all frames
GenRaise ==
    /\ fn = GeneratedVariant
    /\ pc = "loop"
    /\ GenExhausted(model_index)
    /\ pc' = "raised"
    /\ error_msg' = <<"all model attempts failed">>
    /\ depth' = 0
    /\ UNCHANGED <<model, models_to_try, idx, oracle, calls, result>>
    /\ UNCHANGED <<sanVars, fn, model_index, earlier, error_text, label, parsed>>
    /\ UNCHANGED checkVars
    /\ UNCHANGED envVars

\* lines 255-267: the completion call succeeds and every frame returns
GenSucceeds ==
    /\ fn = GeneratedVariant
    /\ pc = "loop"
    /\ ~GenExhausted(model_index)
    /\ ~GenScanRaises(messages)
    /\ model_index + 1 \in oracle
    /\ messages' = GenPrepare(messages)
    /\ calls' = Append(calls, [model |-> RECOMMENDED_MODELS[model_index + 1],
                              messages |-> messages'])
    /\ result' = [text |-> Response(RECOMMENDED_MODELS[model_index + 1])]
    /\ pc' = "done"
    /\ depth' = 0
    /\ UNCHANGED <<model, models_to_try, idx, oracle, error_msg>>
    /\ UNCHANGED <<orig, arg, returned, aliased, outcome, applied>>
    /\ UNCHANGED <<fn, model_index, earlier, error_text, label, parsed>>
    /\ UNCHANGED checkVars
    /\ UNCHANGED envVars

\* lines 255-271: the try block raises (the scan of line 257, the index of
\* line 262, or the completion call) and the handler calls the next level
GenFails ==
    /\ fn = GeneratedVariant
    /\ pc = "loop"
    /\ ~GenExhausted(model_index)
    /\ IF GenScanRaises(messages)
         THEN /\ error_msg' = <<"AttributeError">>
              /\ UNCHANGED <<messages, calls>>
         ELSE IF model_index >= Len(RECOMMENDED_MODELS)
           THEN /\ messages' = GenPrepare(messages)
                /\ error_msg' = <<"IndexError">>
                /\ UNCHANGED calls
         ELSE /\ model_index + 1 \notin oracle
              /\ messages' = GenPrepare(messages)
              /\ calls' = Append(calls,
                                 [model |-> RECOMMENDED_MODELS[model_index + 1],
                                  messages |-> messages'])
              /\ \E err \in ErrTexts : error_msg' = err
    /\ model_index' = GenNextIndex(model_index)
    /\ depth' = depth + 1
    /\ UNCHANGED <<pc, model, models_to_try, idx, oracle, result>>
    /\ UNCHANGED <<orig, arg, returned, aliased, outcome, applied>>
    /\ UNCHANGED <<fn, earlier, error_text, label, parsed>>
    /\ UNCHANGED checkVars
    /\ UNCHANGED envVars

---------------------------------------------------------------------------
(* A dispatcher called on a caller's list *)

DispatchEntries == Dicts({"system", "user"}, {"Hi"}) \cup NonDicts

\* the caller hands the same list to the same dispatcher once more
CallAgain ==
    /\ pc = "done"
    /\ earlier < MaxEarlier
    /\ earlier' = earlier + 1
    /\ pc' = "idle"
    /\ model' = None
    /\ models_to_try' = <<>>
    /\ idx' = 0
    /\ oracle' = {}
    /\ calls' = <<>>
    /\ error_msg' = <<>>
    /\ result' = <<>>
    /\ arg' = <<>>
    /\ returned' = <<>>
    /\ aliased' = FALSE
    /\ outcome' = "none"
    /\ model_index' = 0
    /\ depth' = 0
    /\ UNCHANGED <<messages, orig, fn, applied, error_text, label, parsed>>
    /\ UNCHANGED checkVars
    /\ UNCHANGED envVars

Init ==
    /\ messages \in SeqsUpTo(DispatchEntries, MaxDispatchLen)
    /\ fn \in Dispatchers \cup {GeneratedVariant}
    /\ SanitizerIdle
    /\ DispatchIdle
    /\ ExtIdle
    /\ CheckIdle
    /\ EnvIdle

Next ==
    \/ SafeCompletionEnter
    \/ SafeCompletionSucceeds
    \/ SafeCompletionFails
    \/ SafeClaudeCallEnter
    \/ SafeClaudeCallSucceeds
    \/ SafeClaudeCallFails
    \/ GenEnter
    \/ GenRaise
    \/ GenSucceeds
    \/ GenFails
    \/ CallAgain

Spec == Init /\ [][Next]_vars

---------------------------------------------------------------------------
(* Properties of the sanitizer, checked under SpecSanitizer *)

AllDicts(s) == \A i \in DOMAIN s : isinstance_dict(s[i])

SystemOnly(s) ==
    /\ s # <<>>
    /\ \A i \in DOMAIN s : isinstance_dict(s[i]) /\ Get(s[i], "role") = "system"

LacksContent(msg) == "content" \notin DOMAIN msg \/ msg["content"] \in {"", None}

\* C1: for every input sequence of message records the sanitizer returns a
\* sequence that is non-empty and holds a message whose role is not "system".
C1_NonEmptyWithNonSystem ==
    (applied >= 1 /\ AllDicts(arg)) =>
        /\ outcome = "returned"
        /\ returned # <<>>
        /\ \E i \in DOMAIN returned :
               /\ "role" \in DOMAIN returned[i]
               /\ returned[i]["role"] # "system"

\* a system-only input, one message without content, has been sanitized
C1_Witness ==
    /\ applied = 1
    /\ arg = <<[role |-> "system"]>>
    /\ outcome = "returned"
    /\ Len(returned) = 2

\* C2: every returned message has a role and a non-empty content; a message
\* that lacked a role has role "user", one whose content was missing or empty
\* has the content "Please help me."; no returned content is empty or None.
C2_FieldsDefaulted ==
    (applied >= 1 /\ outcome = "returned") =>
        \A i \in DOMAIN returned :
            /\ "role" \in DOMAIN returned[i]
            /\ "content" \in DOMAIN returned[i]
            /\ returned[i]["content"] \notin {"", None}
            /\ i \in DOMAIN arg =>
                 /\ "role" \notin DOMAIN arg[i] => returned[i]["role"] = "user"
                 /\ LacksContent(arg[i]) =>
                        returned[i]["content"] = "Please help me."

\* a message with an empty content and no role has been repaired
C2_Witness ==
    /\ applied = 1
    /\ outcome = "returned"
    /\ \E i \in DOMAIN arg :
           /\ arg[i] = [content |-> ""]
           /\ returned[i] = [role |-> "user", content |-> "Please help me."]

\* C3 as stated: a system-only input comes back as that very sequence
\* followed by the one appended user message.
C3_SystemOnlyUnchangedPlusOne ==
    (applied >= 1 /\ SystemOnly(arg)) =>
        /\ outcome = "returned"
        /\ returned = Append(arg, [role |-> "user",
                                   content |-> "Please provide assistance."])

\* C3, amended: a system-only input of n messages comes back with n + 1
\* messages, the last being the one appended user message; the first n are
\* the system messages in their order, each with its role and its content,
\* except that a missing or empty content has become "Please help me.".
C3_SystemOnlyPlusOne ==
    (applied >= 1 /\ SystemOnly(arg)) =>
        /\ outcome = "returned"
        /\ Len(returned) = Len(arg) + 1
        /\ returned[Len(arg) + 1] =
               [role |-> "user", content |-> "Please provide assistance."]
        /\ \A i \in DOMAIN arg :
               returned[i] =
                   [role |-> "system",
                    content |-> IF LacksContent(arg[i]) THEN "Please help me."
                                ELSE arg[i]["content"]]

\* two system messages have been sanitized and one user message appended
C3_Witness ==
    /\ applied = 1
    /\ arg = <<[role |-> "system", content |-> "Hi"],
               [role |-> "system", content |-> "Hi"]>>
    /\ returned = <<[role |-> "system", content |-> "Hi"],
                    [role |-> "system", content |-> "Hi"],
                    [role |-> "user", content |-> "Please provide assistance."]>>

\* C4: for an empty input the sanitizer returns exactly one message, whose
\* role is "user" and whose content is non-empty.
C4_EmptyInputOneUserMessage ==
    (applied >= 1 /\ arg = <<>>) =>
        /\ outcome = "returned"
        /\ Len(returned) = 1
        /\ DOMAIN returned[1] = {"role", "content"}
        /\ returned[1]["role"] = "user"
        /\ returned[1]["content"] \notin {"", None}

\* the empty list has been sanitized
C4_Witness ==
    /\ applied = 1
    /\ orig = <<>>
    /\ arg = <<>>
    /\ returned = <<[role |-> "user", content |-> "Hello"]>>

ValidInput(s) ==
    /\ s # <<>>
    /\ \A i \in DOMAIN s :
           /\ isinstance_dict(s[i])
           /\ DOMAIN s[i] = {"role", "content"}
           /\ s[i]["content"] \notin {"", None}
    /\ \E i \in DOMAIN s : s[i]["role"] # "system"

\* C5: an input that holds a non-system message and whose messages all have
\* a role and a non-empty content is returned unmodified, by one application
\* and by two.
C5_ValidInputUnmodified ==
    (applied >= 1 /\ ValidInput(orig)) =>
        /\ outcome = "returned"
        /\ returned = orig
        /\ messages = orig

\* a valid input with an assistant message has been sanitized twice
C5_Witness ==
    /\ applied = 2
    /\ orig = <<[role |-> "system", content |-> "Hi"],
                [role |-> "assistant", content |-> "Hi"]>>
    /\ returned = orig

\* C6: on a non-empty input with an entry that is no record the sanitizer
\* completes and returns, at that entry's position, a user message whose
\* content is the string form of the entry.
C6_NonRecordCoerced ==
    (applied >= 1 /\ arg # <<>> /\ ~AllDicts(arg)) =>
        /\ outcome = "returned"
        /\ \A i \in DOMAIN arg :
               ~isinstance_dict(arg[i]) =>
                   /\ i \in DOMAIN returned
                   /\ returned[i] = [role |-> "user", content |-> arg[i].str]

\* the message a record entry becomes: role and content defaulted
Repaired(msg) ==
    [role |-> IF "role" \in DOMAIN msg THEN msg["role"] ELSE "user",
     content |-> IF LacksContent(msg) THEN "Please help me."
                 ELSE msg["content"]]

\* C7: for a non-empty input of length n the output has length n or n + 1,
\* position i <= n holds the (possibly repaired) message of input position i,
\* and an extra message is the appended user message at the last position;
\* when the sanitizer raises, the caller's list is as it was.
C7_OrderPreservedAppendAtEnd ==
    (applied >= 1 /\ arg # <<>>) =>
        /\ outcome = "returned" =>
             /\ Len(returned) \in {Len(arg), Len(arg) + 1}
             /\ \A i \in DOMAIN arg : returned[i] = Repaired(arg[i])
             /\ Len(returned) = Len(arg) + 1 =>
                    returned[Len(returned)] =
                        [role |-> "user",
                         content |-> "Please provide assistance."]
        /\ outcome = "raised" => (returned = <<>> /\ messages = orig)

\* a repaired message kept its place in front of an untouched one
C7_Witness ==
    /\ applied = 1
    /\ arg = <<[k \in {} |-> ""], [role |-> "assistant", content |-> "Hi"]>>
    /\ returned = <<[role |-> "user", content |-> "Please help me."],
                    [role |-> "assistant", content |-> "Hi"]>>

---------------------------------------------------------------------------
(* Properties of the dispatchers, checked under Spec *)

\* C8: in safe_completion the candidate list is <<model>> when the caller
\* supplied a model of claude_models, and all of claude_models in every
\* other case (no model, or a model that is not recognized).
C8_CandidateList ==
    (fn = "safe_completion" /\ pc \in {"loop", "done"}) =>
        models_to_try =
            IF model # None /\ InList(model, claude_models)
              THEN <<model>>
              ELSE claude_models

\* C9: when the calls on candidates 1..N-1 fail and the call on candidate N
\* succeeds, the dispatcher returns success with the response of candidate N
\* and has made exactly N completion calls, one per candidate in list order.
C9_SuccessAtLastCandidate ==
    (pc = "done" /\ oracle = {Len(models_to_try)}) =>
        /\ result.success
        /\ result.text = Response(models_to_try[Len(models_to_try)])
        /\ Len(calls) = Len(models_to_try)
        /\ \A k \in DOMAIN calls : calls[k].model = models_to_try[k]

\* three candidates failed and the fourth answered
C9_Witness ==
    /\ pc = "done"
    /\ Len(models_to_try) = 4
    /\ oracle = {4}
    /\ Len(calls) = 4
    /\ result.success
    /\ result.text = Response(claude_models[4])

\* the error classes of parse_error, by the substrings that select them
MatchesKnownClass(text) ==
    \/ Contains(NonSystemText, text)
    \/ Contains("NoCredentialsError", text)
    \/ Contains("CredentialsNotFound", text)
    \/ Contains("AccessDeniedException", text)
    \/ Contains("Access denied", text)
    \/ Contains("ResourceNotFoundException", text)
    \/ Contains("ValidationException", text)
    \/ Contains("ThrottlingException", text)

\* C10: when every candidate failed, safe_completion returns failure with a
\* suggestions list that is non-empty exactly when the final error text
\* contains one of the known classification substrings.
C10_SuggestionsIffKnownClass ==
    (fn = "safe_completion" /\ pc = "done" /\ oracle = {}) =>
        /\ ~result.success
        /\ "suggestions" \in DOMAIN result.info
        /\ result.info.suggestions # <<>> <=> MatchesKnownClass(result.text)

\* C11: in safe_completion a failure of a candidate that is not the last
\* never ends the dispatch, so a failure return comes after every candidate
\* was attempted in order; it is (False, error text of the last candidate,
\* info) with info.tried_models the candidate list and info.suggestions
\* derived from that last error, and nothing of an earlier error.
C11_FailureOnlyAfterLastCandidate ==
    (fn = "safe_completion" /\ pc = "done" /\ ~result.success) =>
        /\ Len(calls) = Len(models_to_try)
        /\ idx = Len(models_to_try)
        /\ \A k \in DOMAIN calls : calls[k].model = models_to_try[k]
        /\ result.text = error_msg
        /\ result.info = [error |-> error_msg,
                          tried_models |-> [k \in DOMAIN calls |-> calls[k].model],
                          suggestions |-> get_error_suggestions(error_msg)]

\* all four candidates failed, the last one with a validation error
C11_Witness ==
    /\ fn = "safe_completion"
    /\ pc = "done"
    /\ Len(calls) = 4
    /\ ~result.success
    /\ result.text = <<"ValidationException">>
    /\ Len(result.info.suggestions) = 3
    /\ result.info.tried_models = claude_models

\* C12: candidates are attempted strictly in list order, each at most once,
\* candidate k + 1 only after the attempt on candidate k failed, no call is
\* made after a successful one, and never more calls than candidates.
C12_OrderedAtMostOnce ==
    (fn \in Dispatchers) =>
        /\ Len(calls) <= Len(models_to_try)
        /\ \A k \in DOMAIN calls : calls[k].model = models_to_try[k]
        /\ \A j, k \in DOMAIN calls : j # k => calls[j].model # calls[k].model
        /\ \A k \in DOMAIN calls : k < Len(calls) => k \notin oracle
        /\ pc = "loop" => Len(calls) = idx - 1
        /\ (pc = "done" /\ result.success) => Len(calls) \in oracle

\* the second of three candidates answered after the first failed
C12_Witness ==
    /\ fn = "safe_claude_call"
    /\ pc = "done"
    /\ oracle = {2, 3}
    /\ Len(models_to_try) = 3
    /\ Len(calls) = 2
    /\ result.success

\* C13: no error is fatal to a dispatcher call: for every message input,
\* malformed arrays included, safe_completion and safe_claude_call end by
\* returning a result tuple and never by an exception reaching the caller.
C13_NoExceptionReachesCaller ==
    (fn \in Dispatchers) => pc # "raised"

\* the first candidate position whose completion call succeeds
FirstSuccess(n) == CHOOSE k \in oracle \cap (1..n) :
                       \A j \in oracle \cap (1..n) : k <= j

\* C16: in safe_claude_call any non-empty model argument, recognized or not,
\* gives the single candidate <<model>>: one call, no default tried; without
\* a model the three defaults are tried in order.  A total failure returns
\* (False, "all models failed: " + the last error text), a success returns
\* (True, the response of the first candidate that succeeded).
C16_SimpleVariant ==
    (fn = "safe_claude_call" /\ pc \in {"loop", "done"}) =>
        /\ models_to_try =
               IF model \notin {None, ""} THEN <<model>> ELSE claude_models_helper
        /\ model \notin {None, ""} => Len(calls) <= 1
        /\ pc = "done" =>
             IF oracle = {}
               THEN /\ result = [success |-> FALSE,
                                 text |-> <<"all models failed:">> \o error_msg]
                    /\ Len(calls) = Len(models_to_try)
               ELSE /\ result =
                         [success |-> TRUE,
                          text |-> Response(models_to_try[
                                       FirstSuccess(Len(models_to_try))])]
                    /\ Len(calls) = FirstSuccess(Len(models_to_try))

\* a model that is not recognized was the only candidate, and it failed
C16_Witness ==
    /\ fn = "safe_claude_call"
    /\ pc = "done"
    /\ model = "gpt-4"
    /\ models_to_try = <<"gpt-4">>
    /\ Len(calls) = 1
    /\ ~result.success

---------------------------------------------------------------------------
(* Further properties of the sanitizer, checked under SpecSanitizer *)

\* C18: the sanitizer is idempotent on every input sequence of records: a
\* second application returns what it was given, appends nothing and changes
\* no field.
C18_Idempotent ==
    (applied >= 2 /\ AllDicts(orig)) =>
        /\ outcome = "returned"
        /\ returned = arg
        /\ Len(returned) = Len(arg)

\* a system-only input with a missing content was sanitized twice
C18_Witness ==
    /\ applied = 2
    /\ orig = <<[role |-> "system"]>>
    /\ returned = <<[role |-> "system", content |-> "Please help me."],
                    [role |-> "user", content |-> "Please provide assistance."]>>
    /\ arg = returned

---------------------------------------------------------------------------
(* Properties of the generated recursive variant, checked under Spec *)

\* C14 as stated: the recursive variant makes exactly
\* len(RECOMMENDED_MODELS) completion calls on the never-succeeding path, its
\* recursion depth never exceeds len(RECOMMENDED_MODELS) + 1, and it ends by
\* raising the 'all models failed' error.
C14_RecursionBoundedExactCalls ==
    (fn = GeneratedVariant) =>
        /\ depth <= Len(RECOMMENDED_MODELS) + 1
        /\ model_index <= Len(RECOMMENDED_MODELS)
        /\ pc = "loop" => depth = model_index + 1
        /\ pc = "raised" =>
             /\ error_msg = <<"all model attempts failed">>
             /\ Len(calls) = Len(RECOMMENDED_MODELS)

\* C14, amended: the depth never exceeds len(RECOMMENDED_MODELS) + 1 and the
\* never-succeeding path ends by raising the 'all models failed' error; on
\* it the variant has made exactly len(RECOMMENDED_MODELS) completion calls
\* when every entry of the message array is a record, and none when an entry
\* is not a record.
C14_RecursionBounded ==
    (fn = GeneratedVariant) =>
        /\ depth <= Len(RECOMMENDED_MODELS) + 1
        /\ model_index <= Len(RECOMMENDED_MODELS)
        /\ Len(calls) <= Len(RECOMMENDED_MODELS)
        /\ pc = "loop" => depth = model_index + 1
        /\ pc = "raised" =>
             /\ error_msg = <<"all model attempts failed">>
             /\ model_index = Len(RECOMMENDED_MODELS)
             /\ Len(calls) = IF AllDicts(orig) THEN Len(RECOMMENDED_MODELS)
                             ELSE 0

\* the deepest frame, reached after three failed completion calls
C14_Witness ==
    /\ fn = GeneratedVariant
    /\ pc = "loop"
    /\ model_index = 3
    /\ depth = 4
    /\ Len(calls) = 3

\* C15: every completion call issued by safe_completion, safe_claude_call
\* or the recursive variant carries a message array that holds at least one
\* non-system message, on the first attempt and on every fallback attempt.
C15_CallsCarryNonSystemMessage ==
    \A k \in DOMAIN calls :
        /\ calls[k].messages # <<>>
        /\ \E i \in DOMAIN calls[k].messages :
               /\ isinstance_dict(calls[k].messages[i])
               /\ Get(calls[k].messages[i], "role") # "system"

\* a fallback call of the recursive variant on a system-only caller list
C15_Witness ==
    /\ fn = GeneratedVariant
    /\ orig = <<[role |-> "system", content |-> "Hi"]>>
    /\ Len(calls) = 2
    /\ calls[2].messages = <<[role |-> "system", content |-> "Hi"],
                             [role |-> "user", content |-> "Hello"]>>

---------------------------------------------------------------------------
(* Properties of parse_error, checked under SpecParse *)

\* the classes in their priority order: the substrings and the label
ErrorClasses ==
    <<[subs |-> {NonSystemText}, label |-> "system messages only"],
      [subs |-> {"NoCredentialsError", "CredentialsNotFound"},
       label |-> "no credentials"],
      [subs |-> {"AccessDeniedException", "Access denied"},
       label |-> "no access permission"],
      [subs |-> {"ResourceNotFoundException"},
       label |-> "model or resource missing"],
      [subs |-> {"ValidationException"}, label |-> "request validation failed"],
      [subs |-> {"ThrottlingException"}, label |-> "API limit exceeded"]>>

ClassMatches(k, text) ==
    \E i \in DOMAIN text : text[i] \in ErrorClasses[k].subs

\* C17: parse_error returns the label of the first class that matches, in
\* the order missing-non-system-message, no-credentials, access-denied,
\* resource-not-found, validation, throttling; a text with "Access denied"
\* and "ValidationException" is never labelled validation.  A text matching
\* no class is returned unchanged when it has at most 50 characters, and
\* otherwise as its first 50 characters followed by "...".
C17_FirstMatchingClass ==
    parsed =>
        /\ \A k \in DOMAIN ErrorClasses :
               (ClassMatches(k, error_text)
                  /\ \A j \in 1..(k - 1) : ~ClassMatches(j, error_text))
                 => label = <<ErrorClasses[k].label>>
        /\ (Contains("Access denied", error_text)
              /\ Contains("ValidationException", error_text))
             => label # <<"request validation failed">>
        /\ (\A k \in DOMAIN ErrorClasses : ~ClassMatches(k, error_text)) =>
             /\ Len(error_text) <= 50 => label = error_text
             /\ Len(error_text) > 50 =>
                  /\ Len(label) = 51
                  /\ \A i \in 1..50 : label[i] = error_text[i]
                  /\ label[51] = "..."

\* a text with both substrings was labelled as an access error
C17_Witness ==
    /\ parsed
    /\ error_text = <<"ValidationException", "Access denied">>
    /\ label = <<"no access permission">>

---------------------------------------------------------------------------
(* The caller's list across dispatcher calls, checked under Spec *)

\* C19: the sanitizer repairs a non-empty input in place: after the call
\* the caller's list is the returned sequence, with the appended user
\* message and the defaulted fields; for an empty input the caller's list
\* stays empty and a fresh one-message sequence is returned.  A second
\* dispatcher call on the same system-only list appends nothing more.
C19_RepairedInPlace ==
    (fn \in Dispatchers /\ outcome = "returned") =>
        /\ IF arg = <<>>
             THEN /\ messages = <<>>
                  /\ returned = <<[role |-> "user", content |-> "Hello"]>>
             ELSE /\ messages = returned
                  /\ \A i \in DOMAIN messages :
                         /\ DOMAIN messages[i] = {"role", "content"}
                         /\ messages[i]["content"] \notin {"", None}
                  /\ SystemOnly(arg) =>
                         messages[Len(messages)] =
                             [role |-> "user",
                              content |-> "Please provide assistance."]
        /\ (earlier >= 1 /\ SystemOnly(orig)) =>
               /\ arg = messages
               /\ Len(messages) = Len(orig) + 1
               /\ \A i \in DOMAIN orig : messages[i]["role"] = "system"

\* the second call on a system-only list found the user message of the first
C19_Witness ==
    /\ fn = "safe_claude_call"
    /\ earlier = 1
    /\ outcome = "returned"
    /\ orig = <<[role |-> "system"]>>
    /\ messages = <<[role |-> "system", content |-> "Please help me."],
                    [role |-> "user", content |-> "Please provide assistance."]>>
    /\ Len(calls) = 1

---------------------------------------------------------------------------
(* BedrockChecker.run_full_check (aws_bedrock_checker.py) *)

regions_to_check ==
    <<"us-east-1", "us-west-2", "eu-central-1", "ap-northeast-1",
      "ap-southeast-2">>

BedrockChecker_claude_models ==
    <<"anthropic.claude-v2:1",
      "anthropic.claude-v2",
      "anthropic.claude-3-haiku-20240307-v1:0",
      "anthropic.claude-3-sonnet-20240229-v1:0",
      "anthropic.claude-3-opus-20240229-v1:0">>

\* what check_region_models can return: (True, models, msg) with `models`
\* the filtered Claude models (here their number), or (False, [], msg)
ListingOutcomes ==
    {[success |-> TRUE, models |-> n] : n \in 0..MaxListed}
      \cup {[success |-> FALSE, models |-> 0]}

\* the status texts of check_model_access (lines 113, 117, 119, 121-123)
Available == "available"
ModelStatuses ==
    {Available, "not supported in region", "access needed", "error"}

\* what check_model_access can return: a status for every model id, or
\* (line 128) the region access error for all of them
AccessResults ==
    [{BedrockChecker_claude_models[i] :
          i \in DOMAIN BedrockChecker_claude_models} -> ModelStatuses]
      \cup {[m \in {BedrockChecker_claude_models[i] :
                       i \in DOMAIN BedrockChecker_claude_models}
               |-> "region access error"]}

\* lines 192-204: available_models after the loop over access_status
CountAvailable(access_status) ==
    Cardinality({m \in DOMAIN access_status : access_status[m] = Available})

ProbeLimit == 2

\* s[:n]
Slice(s, n) == SubSeq(s, 1, IF n < Len(s) THEN n ELSE Len(s))

\* a recommendation, once made, replaced by every later region with access
Recommend_Latest(recommended, region, available_models) ==
    IF available_models > 0 THEN region ELSE recommended

\* lines 206-207
Recommend(recommended, region, available_models) ==
    IF available_models > 0 /\ recommended = None
      THEN region
      ELSE recommended

InitChecker ==
    /\ messages = <<>>
    /\ fn = "run_full_check"
    /\ SanitizerIdle
    /\ DispatchIdle
    /\ ExtIdle
    /\ cpc = "credentials"
    /\ creds_ok = FALSE
    /\ listed = <<>>
    /\ available_regions = <<>>
    /\ probed = <<>>
    /\ recommended_region = None
    /\ config_region = None
    /\ check_result = "none"
    /\ EnvIdle

\* lines 135-145: the credential probe; on failure run_full_check returns
CheckCredentials ==
    /\ cpc = "credentials"
    /\ \E ok \in BOOLEAN :
         /\ creds_ok' = ok
         /\ cpc' = IF ok THEN "listing" ELSE "returned"
         /\ check_result' = IF ok THEN check_result ELSE "False"
    /\ UNCHANGED <<listed, available_regions, probed, recommended_region,
                   config_region>>
    /\ UNCHANGED <<sanVars, dispVars, extVars, fn>>
    /\ UNCHANGED envVars

\* lines 156-175: one turn of the loop over regions_to_check
ListRegion ==
    /\ cpc = "listing"
    /\ Len(listed) < Len(regions_to_check)
    /\ LET region == regions_to_check[Len(listed) + 1]
       IN  \E out \in ListingOutcomes :
             /\ listed' = Append(listed, out)
             /\ available_regions' =
                    IF out.success /\ out.models > 0
                      THEN Append(available_regions, region)
                      ELSE available_regions
    /\ UNCHANGED <<cpc, creds_ok, probed, recommended_region, config_region,
                   check_result>>
    /\ UNCHANGED <<sanVars, dispVars, extVars, fn>>
    /\ UNCHANGED envVars

\* lines 177-186: after the loop, return False when no region is available
EndListing ==
    /\ cpc = "listing"
    /\ Len(listed) = Len(regions_to_check)
    /\ IF available_regions = <<>>
         THEN /\ cpc' = "returned"
              /\ check_result' = "False"
         ELSE /\ cpc' = "probing"
              /\ UNCHANGED check_result
    /\ recommended_region' = None
    /\ UNCHANGED <<creds_ok, listed, available_regions, probed, config_region>>
    /\ UNCHANGED <<sanVars, dispVars, extVars, fn>>
    /\ UNCHANGED envVars

\* lines 188-207: one turn of the loop over available_regions[:2]
ProbeRegion ==
    /\ cpc = "probing"
    /\ Len(probed) < Len(Slice(available_regions, ProbeLimit))
    /\ LET region == Slice(available_regions, ProbeLimit)[Len(probed) + 1]
       IN  \E access_status \in AccessResults :
             LET available_models == CountAvailable(access_status)
             IN  /\ probed' = Append(probed,
                                     [region |-> region,
                                      available_models |-> available_models])
                 /\ recommended_region' =
                        Recommend(recommended_region, region, available_models)
    /\ UNCHANGED <<cpc, creds_ok, listed, available_regions, config_region,
                   check_result>>
    /\ UNCHANGED <<sanVars, dispVars, extVars, fn>>
    /\ UNCHANGED envVars

\* lines 214-228, with generate_litellm_config (lines 286-288): the file is
\* written and run_full_check returns True, or open() raises and the
\* exception leaves run_full_check; without a recommendation, False
Summarise ==
    /\ cpc = "probing"
    /\ Len(probed) = Len(Slice(available_regions, ProbeLimit))
    /\ IF recommended_region # None
         THEN \E written \in BOOLEAN :
                IF written
                  THEN /\ config_region' = recommended_region
                       /\ cpc' = "returned"
                       /\ check_result' = "True"
                  ELSE /\ cpc' = "raised"
                       /\ UNCHANGED <<config_region, check_result>>
         ELSE /\ cpc' = "returned"
              /\ check_result' = "False"
              /\ UNCHANGED config_region
    /\ UNCHANGED <<creds_ok, listed, available_regions, probed,
                   recommended_region>>
    /\ UNCHANGED <<sanVars, dispVars, extVars, fn>>
    /\ UNCHANGED envVars

NextChecker ==
    \/ CheckCredentials
    \/ ListRegion
    \/ EndListing
    \/ ProbeRegion
    \/ Summarise

SpecChecker == InitChecker /\ [][NextChecker]_vars

---------------------------------------------------------------------------
(* run_full_check, checked under SpecChecker *)

\* the regions whose listing succeeded with at least one Claude model, in
\* regions_to_check order, read from what check_region_models returned
RECURSIVE AvailableByListing(_)
AvailableByListing(n) ==
    IF n = 0 THEN <<>>
    ELSE IF listed[n].success /\ listed[n].models >= 1
      THEN Append(AvailableByListing(n - 1), regions_to_check[n])
      ELSE AvailableByListing(n - 1)

FirstTwoAvailable == Slice(AvailableByListing(Len(listed)), 2)

\* the model access probe of the region found a model with status "available"
HasAccess(region) ==
    \E i \in DOMAIN probed :
        probed[i].region = region /\ probed[i].available_models > 0

ShouldReturnTrue ==
    /\ creds_ok
    /\ \E i \in DOMAIN FirstTwoAvailable : HasAccess(FirstTwoAvailable[i])

EarliestWithAccess ==
    LET i == CHOOSE i \in DOMAIN FirstTwoAvailable :
                 /\ HasAccess(FirstTwoAvailable[i])
                 /\ \A j \in 1..(i - 1) : ~HasAccess(FirstTwoAvailable[j])
    IN  FirstTwoAvailable[i]

\* what run_full_check does before and besides its return value: probes
\* follow a successful credential probe, only the first two available
\* regions are probed, and the recommendation is the earliest with access
RunFullCheckProbes ==
    /\ (listed # <<>> \/ probed # <<>>) => creds_ok
    /\ \A i \in DOMAIN probed :
           probed[i].region = FirstTwoAvailable[i]
    /\ recommended_region # None =>
           /\ ShouldReturnTrue
           /\ recommended_region = EarliestWithAccess
    /\ (cpc \in {"returned", "raised"} /\ ShouldReturnTrue) =>
           recommended_region = EarliestWithAccess

\* C20: once run_full_check has ended, it has returned True if and only if
\* the credential probe succeeded and one of the first two regions whose
\* listing succeeded with at least one Claude model has a model with access;
\* the recommended region is the earliest such region; a third or later
\* available region is never probed; probes follow the credential probe.
C20_TrueIffCredentialsAndAccess ==
    /\ RunFullCheckProbes
    /\ cpc \in {"returned", "raised"} =>
           (check_result = "True" <=> ShouldReturnTrue)

\* the same with the run that ends in the exception of the file write
\* counted with the runs that return True
RunFullCheck_UpToTheWrite ==
    /\ RunFullCheckProbes
    /\ cpc \in {"returned", "raised"} =>
           ((check_result = "True" \/ cpc = "raised") <=> ShouldReturnTrue)
    /\ cpc = "returned" => (check_result = "True" <=> ShouldReturnTrue)
    /\ check_result = "True" => config_region = recommended_region

\* the recommendation is never reassigned
RecommendedNeverReassigned ==
    [][recommended_region # None =>
           recommended_region' = recommended_region]_vars

\* three regions are available, the second of them is recommended, the
\* third was not probed, and run_full_check returned True
RunFullCheck_Witness ==
    /\ cpc = "returned"
    /\ check_result = "True"
    /\ Len(available_regions) = 3
    /\ Len(probed) = 2
    /\ probed[1].available_models = 0
    /\ recommended_region = available_regions[2]

\* the access probes found a model, and the write of the file raised
RunFullCheck_WriteRaised ==
    /\ cpc = "raised"
    /\ ShouldReturnTrue
    /\ check_result = "none"

---------------------------------------------------------------------------
(* LiteLLMBedrockFixer.setup_aws_environment (fix_litellm_bedrock_error.py) *)

\* os.environ is a function from the names that are set to their values

EnvNames ==
    {"AWS_ACCESS_KEY_ID", "AWS_SECRET_ACCESS_KEY", "AWS_REGION", "AWS_PROFILE"}

EnvValues(name) ==
    IF name = "AWS_REGION"
      THEN {"", "us-east-1", "us-west-2", "mars-1"}
    ELSE IF name = "AWS_PROFILE"
      THEN {"default"}
    ELSE {"", "AKIAEXAMPLE"}

Environments ==
    UNION {{env \in [names -> UNION {EnvValues(n) : n \in names}] :
               \A n \in names : env[n] \in EnvValues(n)} :
           names \in SUBSET EnvNames}

\* os.getenv(name)
getenv(env, name) == IF name \in DOMAIN env THEN env[name] ELSE None

\* os.environ[name] = value
setenv(env, name, value) ==
    [n \in DOMAIN env \cup {name} |-> IF n = name THEN value ELSE env[n]]

\* line 83
SupportedRegions ==
    {"us-east-1", "us-west-2", "eu-central-1", "ap-northeast-1",
     "ap-southeast-2"}

\* the default region set before the credentials are looked at
setup_aws_environment_DefaultFirst(env) ==
    LET aws_access_key == getenv(env, "AWS_ACCESS_KEY_ID")
        aws_secret_key == getenv(env, "AWS_SECRET_ACCESS_KEY")
        aws_region == getenv(env, "AWS_REGION")
        defaulted == IF Falsy(aws_region)
                       THEN setenv(env, "AWS_REGION", "us-east-1")
                       ELSE env
    IN  IF Falsy(aws_access_key) \/ Falsy(aws_secret_key)
          THEN [ok |-> FALSE, msg |-> <<"credentials not set">>,
                environ |-> defaulted, warned |-> FALSE]
          ELSE [ok |-> TRUE,
                msg |-> <<"configured", getenv(defaulted, "AWS_REGION")>>,
                environ |-> defaulted,
                warned |-> getenv(defaulted, "AWS_REGION")
                               \notin SupportedRegions]

\* a region outside the supported list refused
setup_aws_environment_Refuse(env) ==
    LET r == setup_aws_environment_DefaultFirst(env)
    IN  IF Falsy(getenv(env, "AWS_ACCESS_KEY_ID"))
             \/ Falsy(getenv(env, "AWS_SECRET_ACCESS_KEY"))
             \/ r.warned
          THEN [ok |-> FALSE, msg |-> <<"credentials not set">>,
                environ |-> env, warned |-> FALSE]
          ELSE r

\* lines 69-90: the returned tuple, os.environ after the call, and whether
\* the warning of lines 83-85 was printed
setup_aws_environment(env) ==
    LET aws_access_key == getenv(env, "AWS_ACCESS_KEY_ID")
        aws_secret_key == getenv(env, "AWS_SECRET_ACCESS_KEY")
        aws_region == getenv(env, "AWS_REGION")
    IN  IF Falsy(aws_access_key) \/ Falsy(aws_secret_key)
          THEN [ok |-> FALSE, msg |-> <<"credentials not set">>,
                environ |-> env, warned |-> FALSE]
        ELSE LET environ2 == IF Falsy(aws_region)
                               THEN setenv(env, "AWS_REGION", "us-east-1")
                               ELSE env
                 aws_region2 == IF Falsy(aws_region)
                                  THEN "us-east-1"
                                  ELSE aws_region
             IN  [ok |-> TRUE,
                  msg |-> <<"configured", aws_region2>>,
                  environ |-> environ2,
                  warned |-> aws_region2 \notin SupportedRegions]

InitSetup ==
    /\ messages = <<>>
    /\ fn = "setup_aws_environment"
    /\ SanitizerIdle
    /\ DispatchIdle
    /\ ExtIdle
    /\ CheckIdle
    /\ environ \in Environments
    /\ environ_before = environ
    /\ setup_result = << >>
    /\ setup_pc = "ready"

\* success, message = fixer.setup_aws_environment()
SetupAwsEnvironment ==
    /\ setup_pc = "ready"
    /\ LET r == setup_aws_environment(environ)
       IN  /\ environ' = r.environ
           /\ setup_result' = [ok |-> r.ok, msg |-> r.msg, warned |-> r.warned]
    /\ setup_pc' = "returned"
    /\ UNCHANGED environ_before
    /\ UNCHANGED <<sanVars, dispVars, extVars, checkVars, fn>>

NextSetup == SetupAwsEnvironment

SpecSetup == InitSetup /\ [][NextSetup]_vars

---------------------------------------------------------------------------
(* setup_aws_environment, checked under SpecSetup *)

UnsetOrEmpty(env, name) == name \notin DOMAIN env \/ env[name] = ""

\* C21: setup_aws_environment returns failure and leaves the environment as
\* it was when AWS_ACCESS_KEY_ID or AWS_SECRET_ACCESS_KEY is unset or empty;
\* with both set it returns success, also for an unsupported region, sets
\* AWS_REGION to us-east-1 exactly when AWS_REGION was unset or empty, and
\* changes no other variable and no AWS_REGION that was set.
C21_SetupFrame ==
    setup_pc = "returned" =>
        IF UnsetOrEmpty(environ_before, "AWS_ACCESS_KEY_ID")
             \/ UnsetOrEmpty(environ_before, "AWS_SECRET_ACCESS_KEY")
          THEN /\ setup_result.ok = FALSE
               /\ environ = environ_before
          ELSE /\ setup_result.ok = TRUE
               /\ IF UnsetOrEmpty(environ_before, "AWS_REGION")
                    THEN /\ "AWS_REGION" \in DOMAIN environ
                         /\ environ["AWS_REGION"] = "us-east-1"
                    ELSE environ = environ_before
               /\ DOMAIN environ = DOMAIN environ_before \cup {"AWS_REGION"}
               /\ \A n \in DOMAIN environ_before \ {"AWS_REGION"} :
                      environ[n] = environ_before[n]

\* both keys set and an empty AWS_REGION: success, the region defaulted,
\* the profile kept
C21_Witness ==
    /\ setup_pc = "returned"
    /\ setup_result.ok = TRUE
    /\ environ_before = [AWS_ACCESS_KEY_ID |-> "AKIAEXAMPLE",
                         AWS_SECRET_ACCESS_KEY |-> "AKIAEXAMPLE",
                         AWS_REGION |-> "",
                         AWS_PROFILE |-> "default"]
    /\ environ = [AWS_ACCESS_KEY_ID |-> "AKIAEXAMPLE",
                  AWS_SECRET_ACCESS_KEY |-> "AKIAEXAMPLE",
                  AWS_REGION |-> "us-east-1",
                  AWS_PROFILE |-> "default"]

\* a set key and an unset one: failure, and no AWS_REGION appeared
C21_WitnessFailure ==
    /\ setup_pc = "returned"
    /\ setup_result.ok = FALSE
    /\ "AWS_ACCESS_KEY_ID" \in DOMAIN environ_before
    /\ environ_before["AWS_ACCESS_KEY_ID"] = "AKIAEXAMPLE"
    /\ "AWS_SECRET_ACCESS_KEY" \notin DOMAIN environ_before
    /\ "AWS_REGION" \notin DOMAIN environ

\* both keys set and a region outside the supported list: success, a warning
C21_WitnessUnsupported ==
    /\ setup_pc = "returned"
    /\ setup_result.ok = TRUE
    /\ setup_result.warned
    /\ environ["AWS_REGION"] = "mars-1"

---------------------------------------------------------------------------
(* fix_bedrock_messages as create_helper_functions writes it into        *)
(* bedrock_helpers.py (fix_litellm_bedrock_error.py, lines 285-316)      *)

\* lines 306-314: one turn of the format loop on entry i
HelperEntry(msgs, i) ==
    LET msg == msgs[i]
        m1 == IF ~isinstance_dict(msg)
                THEN [msgs EXCEPT ![i] = [role |-> "user", content |-> str(msg)]]
                ELSE msgs
        m2 == IF ~KeyIn("role", msg)
                THEN [m1 EXCEPT ![i] = SetKey(@, "role", "user")]
                ELSE m1
    IN  IF ~KeyIn("content", msg)
          THEN [raised |-> FALSE,
                list |-> [m2 EXCEPT ![i] = SetKey(@, "content", "Please help me.")]]
        ELSE IF ~isinstance_dict(msg)
          THEN [raised |-> TRUE, list |-> m2]
        ELSE IF Falsy(msg["content"])
          THEN [raised |-> FALSE,
                list |-> [m2 EXCEPT ![i] = SetKey(@, "content", "Please help me.")]]
        ELSE [raised |-> FALSE, list |-> m2]

RECURSIVE HelperLoop(_, _)
HelperLoop(msgs, i) ==
    IF i > Len(msgs) THEN [raised |-> FALSE, list |-> msgs]
    ELSE LET step == HelperEntry(msgs, i)
         IN  IF step.raised THEN step ELSE HelperLoop(step.list, i + 1)

\* line 299
HelperScanRaises(msgs) == \E i \in DOMAIN msgs : ~isinstance_dict(msgs[i])

HelperNonSystem(msgs) ==
    SelectSeq(msgs, LAMBDA msg : Get(msg, "role") # "system")

\* line 296
HelperEmptyDefault == <<[role |-> "user", content |-> "Hello"]>>

\* line 303
HelperAppend(msgs) ==
    Append(msgs, [role |-> "user", content |-> "Please provide assistance."])

helper_fix_bedrock_messages(msgs) ==
    IF msgs = <<>>
      THEN Returned(HelperEmptyDefault, msgs)
    ELSE IF HelperScanRaises(msgs)
      THEN Raised(msgs)
    ELSE LET appended ==
                 IF HelperNonSystem(msgs) = <<>> THEN HelperAppend(msgs) ELSE msgs
             loop == HelperLoop(appended, 1)
         IN  IF loop.raised THEN Raised(loop.list)
             ELSE Returned(loop.list, loop.list)

---------------------------------------------------------------------------
(* The sanitizer implementations compared, checked under SpecSanitizer *)

\* what the latest sanitizer call did: whether it raised, what it returned,
\* and the list it was handed as that list is afterwards
LatestCall ==
    [raised |-> outcome = "raised", ret |-> returned, list |-> messages]

\* C22: for every input, fix_bedrock_messages, its copy written by
\* create_helper_functions and validate_messages agree: each raises or
\* returns as the others do, returns the same sequence and leaves the list
\* it was handed in the same state.
C22_SanitizersEquivalent ==
    /\ outcome # "none" =>
        LET a == fix_bedrock_messages(arg)
            b == validate_messages(arg)
            c == helper_fix_bedrock_messages(arg)
        IN  /\ a = b
            /\ a = c
            /\ a.raised = LatestCall.raised
            /\ a.ret = LatestCall.ret
            /\ (applied = 1) => a.list = LatestCall.list
    /\ \A msgs \in {messages, orig, returned} :
           /\ fix_bedrock_messages(msgs) = validate_messages(msgs)
           /\ fix_bedrock_messages(msgs) = helper_fix_bedrock_messages(msgs)

\* validate_messages has run on a list with an empty content and a
\* system-only role set, where it appends and refills
C22_Witness ==
    /\ fn = "validate_messages"
    /\ applied = 1
    /\ outcome = "returned"
    /\ arg = <<[role |-> "system", content |-> ""]>>
    /\ messages = <<[role |-> "system", content |-> "Please help me."],
                    [role |-> "user", content |-> "Please provide assistance."]>>
    /\ fix_bedrock_messages(arg).list = messages

=============================================================================
